---- MODULE Spec2Model ----
(***************************************************************************)
(* A model of pngme: the 4-byte chunk type (chunk_type.rs), the            *)
(* length-prefixed, CRC-protected chunk (chunk.rs) and the container of    *)
(* chunks that the commands (commands.rs) drive.                           *)
(*                                                                         *)
(* Bytes are naturals 0..255, a Vec<u8> or &str is a sequence (of bytes,   *)
(* resp. of Unicode code points).  A u32 does not fit a TLC integer, so it *)
(* is kept as its two 16-bit halves [hi, lo]; all u32 arithmetic is done   *)
(* on the halves with explicit carry, so wrap-around at 2^32 is exact.     *)
(***************************************************************************)
EXTENDS Naturals, Integers, Sequences, FiniteSets, TLC

VARIABLES
    s,            \* ChunkType: the &str handed to from_str (code points)
    raw,          \* ChunkType: the [u8; 4] handed to try_from
    chunk_type,   \* ChunkType: the Result of the last construction
    chunk,        \* Chunk: the chunk built by new() or adopted from a parse
    value,        \* Chunk: the Vec<u8> handed to Chunk::try_from
    edit,         \* Chunk: how `value` was derived from chunk.as_bytes()
    result,       \* Chunk: the Result of Chunk::try_from(value)
    origin,       \* Chunk: whether `chunk` came from new() or from a parse
    png,          \* Png: the ordered chunk sequence of the container
    serial,       \* Png: number of append_chunk calls so far
    last,         \* Png: the last container operation, its argument and pre-state
    file          \* Png: outcome of writing png.as_bytes() and reading it back

vars ==
    <<s, raw, chunk_type, chunk, value, edit, result, origin, png, serial, last, file>>

typeVars  == <<s, raw, chunk_type>>
chunkVars == <<chunk, value, edit, result, origin>>
pngVars   == <<png, serial, last, file>>

(***************************************************************************)
(* Bounds of the model.                                                    *)
(***************************************************************************)
MaxStrLen  == 5     \* longest string given to from_str
MaxData    == 2     \* longest payload given to Chunk::new
MaxExtra   == 2     \* most bytes appended after a serialized chunk
MaxAppends == 4     \* most append_chunk calls on one container

None == [tag |-> "None"]
Ok(v) == [tag |-> "Ok", val |-> v]
Err(e) == [tag |-> "Err", err |-> e]
Panic == [tag |-> "Panic"]

(***************************************************************************)
(* u32 and its big-endian byte encoding.                                   *)
(***************************************************************************)
Half == 65536

\* `n as u32` for a usize n (data.len() as u32)
as_u32(n) == [hi |-> (n \div Half) % Half, lo |-> n % Half]

\* u32::from_be_bytes: b[1] is the most significant byte
from_be_bytes(b) == [hi |-> b[1] * 256 + b[2], lo |-> b[3] * 256 + b[4]]

\* u32::to_be_bytes
to_be_bytes(u) == <<u.hi \div 256, u.hi % 256, u.lo \div 256, u.lo % 256>>

\* `length + 8` on u32 leaves the range of u32
add_overflows(u, n) == u.hi + ((u.lo + n) \div Half) >= Half

\* `length + 8` on u32, wrapped modulo 2^32
wrapping_add(u, n) ==
    [hi |-> (u.hi + ((u.lo + n) \div Half)) % Half, lo |-> (u.lo + n) % Half]

\* `(u as usize) <= n` and `n <= (u as usize)` for a small usize n
usize_le_nat(u, n) == u.hi = 0 /\ u.lo <= n
nat_le_usize(n, u) == u.hi > 0 \/ n <= u.lo

(***************************************************************************)
(* CRC-32/ISO-HDLC (crc::CRC_32_ISO_HDLC): reflected, polynomial           *)
(* 0x04C11DB7 (reflected 0xEDB88320), init 0xFFFFFFFF, xorout 0xFFFFFFFF.  *)
(***************************************************************************)
PolyHi == 60856     \* 0xEDB8
PolyLo == 33568     \* 0x8320
AllOnes == [hi |-> Half - 1, lo |-> Half - 1]

RECURSIVE XorNat(_, _)
XorNat(a, b) ==
    IF a = 0 THEN b
    ELSE IF b = 0 THEN a
    ELSE ((a + b) % 2) + 2 * XorNat(a \div 2, b \div 2)

Xor32(u, v) == [hi |-> XorNat(u.hi, v.hi), lo |-> XorNat(u.lo, v.lo)]
ShiftRight(u) == [hi |-> u.hi \div 2, lo |-> (u.lo \div 2) + (u.hi % 2) * (Half \div 2)]

\* one bit of the reflected algorithm: shift right, subtract the polynomial
CrcBit(reg) ==
    IF reg.lo % 2 = 1
    THEN Xor32(ShiftRight(reg), [hi |-> PolyHi, lo |-> PolyLo])
    ELSE ShiftRight(reg)

RECURSIVE CrcShift(_, _)
CrcShift(reg, n) == IF n = 0 THEN reg ELSE CrcBit(CrcShift(reg, n - 1))

\* the byte-wise table of the reflected algorithm
CrcTable == [k \in 0..255 |-> CrcShift([hi |-> 0, lo |-> k], 8)]

ShiftRight8(u) == [hi |-> u.hi \div 256, lo |-> (u.lo \div 256) + (u.hi % 256) * 256]

\* the register after the first i bytes
RECURSIVE CrcUpdate(_, _)
CrcUpdate(bytes, i) ==
    IF i = 0 THEN AllOnes
    ELSE LET reg == CrcUpdate(bytes, i - 1)
         IN  Xor32(CrcTable[XorNat(reg.lo % 256, bytes[i])], ShiftRight8(reg))

\* crc::Crc::<u32>::new(&CRC_32_ISO_HDLC).checksum(bytes)
checksum(bytes) == Xor32(CrcUpdate(bytes, Len(bytes)), AllOnes)

(***************************************************************************)
(* chunk_type.rs: ChunkType([u8; 4]) is modelled as a sequence of 4 bytes. *)
(***************************************************************************)
is_ascii_uppercase(b) == b \in 65..90
is_ascii_lowercase(b) == b \in 97..122

\* two bytes that are the two cases of one ASCII letter
IsLetterPair(x, y) ==
    \/ (is_ascii_uppercase(x) /\ y = x + 32)
    \/ (is_ascii_lowercase(x) /\ y = x - 32)

\* char::is_alphabetic on the code points below U+0400: the ASCII letters,
\* the Latin-1 letters and the basic Greek letters have the property.
is_alphabetic(c) ==
    \/ c \in 65..90 \/ c \in 97..122
    \/ c \in {170, 181, 186} \/ c \in 192..214 \/ c \in 216..246 \/ c \in 248..255
    \/ c \in 913..929 \/ c \in 931..969

\* `c as u8` for a char c keeps the low 8 bits of the code point
char_as_u8(c) == c % 256

ErrChar(e, c) == [tag |-> "Err", err |-> e, char |-> c]

\* impl TryFrom<[u8; 4]> for ChunkType
ChunkType_try_from(b) == Ok(b)

\* s.chars().map(..).collect::<Result<Vec<u8>, _>>(): the bytes of the first
\* i characters, or the error of the first character that is not alphabetic
RECURSIVE collect(_, _)
collect(str, i) ==
    IF i = 0 THEN Ok(<<>>)
    ELSE LET head == collect(str, i - 1)
         IN  IF head.tag = "Err" THEN head
             ELSE IF is_alphabetic(str[i]) THEN Ok(Append(head.val, char_as_u8(str[i])))
             ELSE ErrChar("InvalidByte", str[i])

\* <[u8; 4]>::try_from(&[u8])
try_into_4(slice) == IF Len(slice) = 4 THEN Ok(slice) ELSE Err("ParseSliceError")

\* impl FromStr for ChunkType
from_str(str) ==
    LET chunk_type_bytes == collect(str, Len(str))
    IN  IF chunk_type_bytes.tag = "Err" THEN chunk_type_bytes
        ELSE try_into_4(chunk_type_bytes.val)

bytes(t) == t
is_critical(t) == is_ascii_uppercase(t[1])
is_public(t) == is_ascii_uppercase(t[2])
is_reserved_bit_valid(t) == is_ascii_uppercase(t[3])
\* is_safe_to_copy testing for the wrong case
is_safe_to_copy_upper(t) == is_ascii_uppercase(t[4])
is_safe_to_copy(t) == is_ascii_lowercase(t[4])
is_valid(t) == is_reserved_bit_valid(t)

\* an equality that ignores the case of the letters
ChunkType_eq_ignore_case(a, b) ==
    \A i \in 1..4 : a[i] = b[i] \/ (IsLetterPair(a[i], b[i]))

\* an equality that compares the first two bytes only
ChunkType_eq_prefix(a, b) == \A i \in 1..2 : a[i] = b[i]

\* #[derive(PartialEq)] on ChunkType: byte-for-byte equality
ChunkType_eq(a, b) == \A i \in 1..4 : a[i] = b[i]

(***************************************************************************)
(* chunk.rs                                                                *)
(***************************************************************************)
\* Chunk::new
Chunk_new(t, data) ==
    [chunk_type |-> t,
     data       |-> data,
     length     |-> as_u32(Len(data)),
     crc        |-> checksum(bytes(t) \o data)]

\* Chunk::length, Chunk::crc: recomputed from the live data
length(c) == as_u32(Len(c.data))
crc(c) == checksum(bytes(c.chunk_type) \o c.data)

\* as_bytes writing the two integers little-endian
as_bytes_le(c) ==
    LET le(u) == <<u.lo % 256, u.lo \div 256, u.hi % 256, u.hi \div 256>>
    IN  le(c.length) \o bytes(c.chunk_type) \o c.data \o le(c.crc)

\* Chunk::as_bytes
as_bytes(c) ==
    to_be_bytes(c.length) \o bytes(c.chunk_type) \o c.data \o to_be_bytes(c.crc)

\* <[T]>::get(a..b) with a usize start and an end computed in u32: None when
\* the start is past the end or the end is past the slice
get_range(v, a, u) ==
    IF nat_le_usize(a, u) /\ usize_le_nat(u, Len(v))
    THEN Ok(SubSeq(v, a + 1, u.lo)) ELSE None

\* a crc read as the 4 bytes after the payload, whatever follows them
get_from_4(v, u) ==
    IF u.hi = 0 /\ u.lo + 4 <= Len(v) THEN Ok(SubSeq(v, u.lo + 1, u.lo + 4)) ELSE None

\* <[T]>::get(a..): None only when the start is past the slice
get_from(v, u) ==
    IF usize_le_nat(u, Len(v)) THEN Ok(SubSeq(v, u.lo + 1, Len(v))) ELSE None

\* a comparison that looks at the low 16 bits only
crc_differs_lo(stored, checked_crc) == stored.lo # checked_crc.lo

\* the comparison of the stored crc with the recomputed one
crc_differs(stored, checked_crc) == stored # checked_crc

\* impl TryFrom<&Vec<u8>> for Chunk.  overflow_checks is the build setting
\* that decides what `length + 8` does when it leaves u32: panic (debug
\* profile) or wrap (release profile).
Chunk_try_from(v, overflow_checks) ==
    LET len_slice == get_range(v, 0, as_u32(4))
    IN  IF len_slice.tag = "None" THEN Err("LengthNotFound") ELSE
    LET len == from_be_bytes(len_slice.val)
        type_slice == get_range(v, 4, as_u32(8))
    IN  IF type_slice.tag = "None" THEN Err("ChunkTypeNotFound") ELSE
    LET t == ChunkType_try_from(type_slice.val).val
    IN  IF overflow_checks /\ add_overflows(len, 8) THEN Panic ELSE
    LET end == wrapping_add(len, 8)
        msg == get_range(v, 8, end)
    IN  IF msg.tag = "None" THEN Err("MessageNotFound") ELSE
    LET crc_slice == get_from(v, end)
    IN  IF crc_slice.tag = "None" THEN Err("CrcNotFound") ELSE
    LET crc_bytes == try_into_4(crc_slice.val)
    IN  IF crc_bytes.tag = "Err" THEN crc_bytes ELSE
    LET stored == from_be_bytes(crc_bytes.val)
        checked_crc == checksum(SubSeq(v, 5, end.lo))
    IN  IF crc_differs(stored, checked_crc) THEN Err("InvalidCrc")
        ELSE Ok([chunk_type |-> t, data |-> msg.val, length |-> len, crc |-> stored])

(***************************************************************************)
(* The container (module png, named by `mod png` in main.rs and used by    *)
(* commands.rs): the fixed signature and the ordered chunk sequence.       *)
(***************************************************************************)
STANDARD_HEADER == <<137, 80, 78, 71, 13, 10, 26, 10>>

\* Png::append_chunk: push to the end of the sequence
append_chunk(chunks, c) == Append(chunks, c)

\* Png::chunk_by_chunk_type: the first chunk, in stored order, of the type
RECURSIVE find_from(_, _, _)
find_from(chunks, t, i) ==
    IF i > Len(chunks) THEN None
    ELSE IF ChunkType_eq(chunks[i].chunk_type, t) THEN Ok(chunks[i])
    ELSE find_from(chunks, t, i + 1)

chunk_by_chunk_type(chunks, t) == find_from(chunks, t, 1)

\* Png::remove_chunks: drop every chunk of the type, keep the others in order
RECURSIVE retain_from(_, _, _)
retain_from(chunks, t, i) ==
    IF i > Len(chunks) THEN <<>>
    ELSE IF ChunkType_eq(chunks[i].chunk_type, t) THEN retain_from(chunks, t, i + 1)
    ELSE <<chunks[i]>> \o retain_from(chunks, t, i + 1)

remove_chunks(chunks, t) == retain_from(chunks, t, 1)

\* Png::as_bytes: the signature, then each chunk's bytes in stored order
RECURSIVE chunks_as_bytes(_, _)
chunks_as_bytes(chunks, i) ==
    IF i > Len(chunks) THEN <<>>
    ELSE as_bytes(chunks[i]) \o chunks_as_bytes(chunks, i + 1)

Png_as_bytes(chunks) == STANDARD_HEADER \o chunks_as_bytes(chunks, 1)

\* the chunk loop of Png::try_from: Chunk parse on the remaining bytes until
\* the buffer is exhausted; the first failure abandons the whole parse
RECURSIVE parse_chunks(_, _)
parse_chunks(rest, overflow_checks) ==
    IF rest = <<>> THEN Ok(<<>>)
    ELSE LET head == Chunk_try_from(rest, overflow_checks)
         IN  IF head.tag # "Ok" THEN head
             ELSE LET used == 12 + Len(head.val.data)
                      tail == parse_chunks(SubSeq(rest, used + 1, Len(rest)),
                                           overflow_checks)
                  IN  IF tail.tag # "Ok" THEN tail
                      ELSE Ok(<<head.val>> \o tail.val)

\* Png::try_from
Png_try_from(b, overflow_checks) ==
    IF Len(b) < 8 \/ SubSeq(b, 1, 8) # STANDARD_HEADER THEN Err("InvalidHeader")
    ELSE parse_chunks(SubSeq(b, 9, Len(b)), overflow_checks)

(***************************************************************************)
(* Inputs of the model.                                                    *)
(***************************************************************************)
\* code points given to from_str: 'R', 't', '1', U+00DF, U+03B1
Chars == {82, 116, 49, 223, 945}

\* bytes given to ChunkType::try_from: NUL, '1', '@', 'R', 't', '{', 0xDF
RawBytes == {0, 49, 64, 82, 116, 123, 223}

RuSt == <<82, 117, 83, 116>>
Rust == <<82, 117, 115, 116>>
teSt == <<116, 101, 83, 116>>
Odd  == <<0, 49, 255, 64>>

\* chunk types and payloads given to Chunk::new
ChunkTypes == {RuSt, teSt, Odd}
DataBytes == {0, 105}
Datas == UNION {[1..n -> DataBytes] : n \in 0..MaxData}

\* length fields written over the first four bytes of a buffer
LengthFields ==
    {<<0, 0, 0, 0>>, <<0, 0, 0, 1>>, <<0, 0, 0, 5>>, <<0, 1, 0, 0>>,
     <<255, 255, 255, 247>>, <<255, 255, 255, 248>>, <<255, 255, 255, 255>>}
ExtraBytes == {0, 255}

\* chunk types given to the container operations
PngTypes == {RuSt, Rust, teSt}

flip_bit(b, k) == IF (b \div (2 ^ k)) % 2 = 1 THEN b - 2 ^ k ELSE b + 2 ^ k

NoOp == [op |-> "none"]

Init ==
    /\ s = <<>> /\ raw = <<>> /\ chunk_type = None
    /\ chunk = None /\ value = <<>> /\ edit = "none" /\ result = None
    /\ origin = "none"
    /\ png = <<>> /\ serial = 0 /\ last = NoOp /\ file = None

(***************************************************************************)
(* ChunkType: construction from text and from raw bytes.                   *)
(***************************************************************************)
TypeChar(c) ==
    /\ chunk_type = None /\ raw = <<>>
    /\ Len(s) < MaxStrLen
    /\ s' = Append(s, c)
    /\ UNCHANGED <<raw, chunk_type, chunkVars, pngVars>>

PutByte(b) ==
    /\ chunk_type = None /\ s = <<>>
    /\ Len(raw) < 4
    /\ raw' = Append(raw, b)
    /\ UNCHANGED <<s, chunk_type, chunkVars, pngVars>>

FromStr ==
    /\ chunk_type = None /\ raw = <<>>
    /\ chunk_type' = from_str(s)
    /\ UNCHANGED <<s, raw, chunkVars, pngVars>>

TryFromBytes ==
    /\ chunk_type = None /\ Len(raw) = 4
    /\ chunk_type' = ChunkType_try_from(raw)
    /\ UNCHANGED <<s, raw, chunkVars, pngVars>>

NextChunkType ==
    \/ \E c \in Chars : TypeChar(c)
    \/ \E b \in RawBytes : PutByte(b)
    \/ FromStr
    \/ TryFromBytes

SpecChunkType == Init /\ [][NextChunkType]_vars

(***************************************************************************)
(* Chunk: a chunk is built, serialized, the bytes are possibly damaged,    *)
(* and the bytes are parsed.                                               *)
(***************************************************************************)
New(t, data) ==
    /\ chunk = None
    /\ chunk' = Chunk_new(t, data)
    /\ origin' = "new"
    /\ value' = <<>> /\ edit' = "none" /\ result' = None
    /\ UNCHANGED <<typeVars, pngVars>>

AsBytes ==
    /\ chunk # None /\ edit = "none"
    /\ value' = as_bytes(chunk)
    /\ edit' = "as_bytes"
    /\ UNCHANGED <<chunk, origin, result, typeVars, pngVars>>

FlipBit(i, k) ==
    /\ edit = "as_bytes" /\ result = None
    /\ i \in 1..Len(value)
    /\ value' = [value EXCEPT ![i] = flip_bit(@, k)]
    /\ edit' = "flip"
    /\ UNCHANGED <<chunk, origin, result, typeVars, pngVars>>

SetLength(field) ==
    /\ edit = "as_bytes" /\ result = None
    /\ field # SubSeq(value, 1, 4)
    /\ value' = field \o SubSeq(value, 5, Len(value))
    /\ edit' = "length"
    /\ UNCHANGED <<chunk, origin, result, typeVars, pngVars>>

Truncate(n) ==
    /\ edit \in {"as_bytes", "length"} /\ result = None
    /\ n < Len(value)
    /\ value' = SubSeq(value, 1, n)
    /\ edit' = "truncate"
    /\ UNCHANGED <<chunk, origin, result, typeVars, pngVars>>

Extend(b) ==
    /\ edit \in {"as_bytes", "length", "extend"} /\ result = None
    /\ Len(value) < 12 + Len(chunk.data) + MaxExtra
    /\ value' = Append(value, b)
    /\ edit' = "extend"
    /\ UNCHANGED <<chunk, origin, result, typeVars, pngVars>>

TryFrom(overflow_checks) ==
    /\ edit # "none" /\ result = None
    /\ result' = Chunk_try_from(value, overflow_checks)
    /\ UNCHANGED <<chunk, origin, value, edit, typeVars, pngVars>>

Adopt ==
    /\ result.tag = "Ok" /\ origin = "new"
    /\ chunk' = result.val
    /\ origin' = "parsed"
    /\ value' = <<>> /\ edit' = "none" /\ result' = None
    /\ UNCHANGED <<typeVars, pngVars>>

NextChunk ==
    \/ \E t \in ChunkTypes, data \in Datas : New(t, data)
    \/ AsBytes
    \/ \E i \in 1..(12 + MaxData), k \in 0..7 : FlipBit(i, k)
    \/ \E field \in LengthFields : SetLength(field)
    \/ \E n \in 0..(12 + MaxData) : Truncate(n)
    \/ \E b \in ExtraBytes : Extend(b)
    \/ \E overflow_checks \in BOOLEAN : TryFrom(overflow_checks)
    \/ Adopt

SpecChunk == Init /\ [][NextChunk]_vars

(***************************************************************************)
(* Container: append, find and remove on the chunk sequence, and writing   *)
(* the container out and reading it back.                                  *)
(***************************************************************************)
AppendChunk(t) ==
    /\ serial < MaxAppends
    /\ LET c == Chunk_new(t, <<serial + 1>>)
       IN  /\ png' = append_chunk(png, c)
           /\ last' = [op |-> "append", chunk |-> c, before |-> png]
    /\ serial' = serial + 1
    /\ file' = None
    /\ UNCHANGED <<typeVars, chunkVars>>

RemoveChunks(t) ==
    /\ png' = remove_chunks(png, t)
    /\ last' = [op |-> "remove", t |-> t, before |-> png]
    /\ file' = None
    /\ UNCHANGED <<serial, typeVars, chunkVars>>

ChunkByType(t) ==
    /\ last' = [op |-> "find", t |-> t, found |-> chunk_by_chunk_type(png, t)]
    /\ UNCHANGED <<png, serial, file, typeVars, chunkVars>>

WriteRead(overflow_checks) ==
    /\ file = None
    /\ file' = Png_try_from(Png_as_bytes(png), overflow_checks)
    /\ UNCHANGED <<png, serial, last, typeVars, chunkVars>>

Load ==
    /\ file.tag = "Ok"
    /\ png' = file.val
    /\ last' = [op |-> "load"]
    /\ file' = None
    /\ UNCHANGED <<serial, typeVars, chunkVars>>

NextPng ==
    \/ \E t \in PngTypes : AppendChunk(t)
    \/ \E t \in PngTypes : RemoveChunks(t)
    \/ \E t \in PngTypes : ChunkByType(t)
    \/ \E overflow_checks \in BOOLEAN : WriteRead(overflow_checks)
    \/ Load

SpecPng == Init /\ [][NextPng]_vars

(***************************************************************************)
(* Properties of ChunkType (checked under SpecChunkType).                  *)
(***************************************************************************)
IsAsciiLetter(b) == b \in 65..90 \/ b \in 97..122
Bit5(b) == (b \div 32) % 2
FromText == chunk_type # None /\ raw = <<>>
NotLetters == {i \in 1..Len(s) : ~IsAsciiLetter(s[i])}
FirstOf(S) == CHOOSE i \in S : \A j \in S : i <= j

\* C5: from_str(s) succeeds, storing the characters' byte values, iff s is
\* exactly 4 ASCII letters; if s has a character that is not an ASCII letter
\* it fails with InvalidByte of the first such character, whatever the
\* length; otherwise (all letters, not 4 of them) it fails with InvalidLength.
C5_FromTextResult ==
    FromText =>
        IF NotLetters # {}
        THEN chunk_type = ErrChar("InvalidByte", s[FirstOf(NotLetters)])
        ELSE IF Len(s) = 4 THEN chunk_type = Ok(s)
        ELSE chunk_type = Err("InvalidLength")

\* C8 as stated: for every ChunkType, from text or from any 4 raw bytes,
\* each property is bit 5 of its byte: critical, public and reserved-bit-valid
\* iff the bit is clear in bytes 0, 1, 2; safe-to-copy iff it is set in byte 3;
\* and is_valid equals is_reserved_bit_valid.
C8_PropertyBitsAnyByte ==
    chunk_type.tag = "Ok" =>
        LET t == chunk_type.val
        IN  /\ is_critical(t) <=> Bit5(t[1]) = 0
            /\ is_public(t) <=> Bit5(t[2]) = 0
            /\ is_reserved_bit_valid(t) <=> Bit5(t[3]) = 0
            /\ is_safe_to_copy(t) <=> Bit5(t[4]) = 1
            /\ is_valid(t) <=> is_reserved_bit_valid(t)

\* C8 as amended: each property holds iff its byte is an ASCII letter with
\* bit 5 clear (bytes 0, 1, 2) resp. set (byte 3), so a byte that is not a
\* letter has none of the properties; is_valid depends on byte 2 alone.
C8_PropertyBitsOfLetters ==
    chunk_type.tag = "Ok" =>
        LET t == chunk_type.val
        IN  /\ is_critical(t) <=> (IsAsciiLetter(t[1]) /\ Bit5(t[1]) = 0)
            /\ is_public(t) <=> (IsAsciiLetter(t[2]) /\ Bit5(t[2]) = 0)
            /\ is_reserved_bit_valid(t) <=> (IsAsciiLetter(t[3]) /\ Bit5(t[3]) = 0)
            /\ is_safe_to_copy(t) <=> (IsAsciiLetter(t[4]) /\ Bit5(t[4]) = 1)
            /\ is_valid(t) <=> (IsAsciiLetter(t[3]) /\ Bit5(t[3]) = 0)

\* a type from raw bytes whose bytes 0 and 3 are not letters, next to letters
C8_Witness ==
    /\ chunk_type.tag = "Ok" /\ Len(raw) = 4
    /\ raw[1] = 64 /\ raw[2] = 116 /\ raw[3] = 82 /\ raw[4] = 123
    /\ ~is_critical(chunk_type.val) /\ is_valid(chunk_type.val)
    /\ ~is_safe_to_copy(chunk_type.val)

(***************************************************************************)
(* Properties of Chunk (checked under SpecChunk).                          *)
(***************************************************************************)
Parsed == result # None
Declared == from_be_bytes(SubSeq(value, 1, 4))
Complete == Len(value) >= 12 /\ Declared.hi = 0 /\ Len(value) = 12 + Declared.lo

\* C1: parsing the bytes of as_bytes() of a chunk, built by new() or returned
\* by a parse, succeeds with the same type, payload, length and crc.
C1_ChunkRoundTrip ==
    (Parsed /\ edit = "as_bytes") =>
        /\ result.tag = "Ok"
        /\ result.val.chunk_type = chunk.chunk_type
        /\ result.val.data = chunk.data
        /\ result.val.length = chunk.length /\ length(result.val) = length(chunk)
        /\ result.val.crc = chunk.crc /\ crc(result.val) = crc(chunk)

C1_Witness ==
    /\ Parsed /\ edit = "as_bytes" /\ origin = "parsed"
    /\ result.tag = "Ok" /\ Len(result.val.data) = MaxData
    /\ result.val.chunk_type = Odd

\* C2: a structurally complete buffer parses to a chunk only if the stored
\* crc is the CRC-32 of type ++ payload, and fails with InvalidCrc otherwise;
\* a serialized chunk with one bit flipped in the type or payload region, the
\* stored crc untouched, fails with InvalidCrc.
C2_CrcIntegrity ==
    /\ (Parsed /\ Complete) =>
          LET stored == from_be_bytes(SubSeq(value, Len(value) - 3, Len(value)))
              good == stored = checksum(SubSeq(value, 5, Len(value) - 4))
          IN  /\ good => result.tag = "Ok"
              /\ ~good => result = Err("InvalidCrc")
    /\ (Parsed /\ edit = "flip"
          /\ SubSeq(value, 1, 4) = SubSeq(as_bytes(chunk), 1, 4)
          /\ SubSeq(value, Len(value) - 3, Len(value)) = to_be_bytes(chunk.crc))
          => result = Err("InvalidCrc")

C2_Witness ==
    /\ Parsed /\ edit = "flip" /\ result = Err("InvalidCrc")
    /\ SubSeq(value, 1, 4) = SubSeq(as_bytes(chunk), 1, 4)
    /\ SubSeq(value, Len(value) - 3, Len(value)) = to_be_bytes(chunk.crc)
    /\ SubSeq(value, 5, 8) = chunk.chunk_type
    /\ chunk.data # <<>>

\* C4: a buffer shorter than 4 bytes fails with LengthNotFound, one of 4..7
\* bytes with ChunkTypeNotFound, one of at least 8 but fewer than 8+L bytes
\* with MessageNotFound, and one of 8+L..11+L bytes with CrcNotFound.
C4_TruncationClassification ==
    Parsed =>
        LET n == Len(value)
        IN  /\ n < 4 => result = Err("LengthNotFound")
            /\ (4 <= n /\ n < 8) => result = Err("ChunkTypeNotFound")
            /\ (8 <= n /\ (Declared.hi > 0 \/ n < 8 + Declared.lo))
                  => result = Err("MessageNotFound")
            /\ (Declared.hi = 0 /\ 8 + Declared.lo <= n /\ n < 12 + Declared.lo)
                  => result = Err("CrcNotFound")

\* C9: for every declared length L, also L >= 2^32 - 8, a buffer of at least
\* 8 bytes with fewer than L bytes after the type field fails with
\* MessageNotFound: no abort and no chunk.
C9_DeclaredLengthOverflow ==
    (Parsed /\ Len(value) >= 8 /\ (Declared.hi > 0 \/ Len(value) - 8 < Declared.lo))
        => result = Err("MessageNotFound")

\* C10: a parse succeeds only on a buffer of exactly 12+L bytes; a complete
\* chunk with a correct crc followed by extra bytes fails with the
\* slice-conversion error.
C10_ExactLengthFraming ==
    /\ result.tag = "Ok" => Complete
    /\ (Parsed /\ Len(value) > 12 + Len(chunk.data)
          /\ SubSeq(value, 1, 12 + Len(chunk.data)) = as_bytes(chunk))
          => result = Err("ParseSliceError")

C10_Witness ==
    /\ Parsed /\ edit = "extend" /\ Len(value) = 12 + Len(chunk.data) + 1
    /\ SubSeq(value, 1, 12 + Len(chunk.data)) = as_bytes(chunk)
    /\ result = Err("ParseSliceError")

(***************************************************************************)
(* Properties of the container (checked under SpecPng).                    *)
(***************************************************************************)
OfType(chunks, t) == {i \in 1..Len(chunks) : chunks[i].chunk_type = t}

\* C3: parsing the bytes of a container reached by appends and removes
\* succeeds and gives back the same ordered chunk sequence.
C3_ContainerRoundTrip == file # None => file = Ok(png)

\* C6: remove_chunks(t) removes every chunk of type t, keeps the chunks of
\* the other types in their order, changes nothing when no chunk has type t,
\* and leaves chunk_by_type(t) with nothing to return.
C6_RemoveAllOfType ==
    last.op = "remove" =>
        LET t == last.t
            before == last.before
            others == SelectSeq(before, LAMBDA c : c.chunk_type # t)
        IN  /\ OfType(png, t) = {}
            /\ png = others
            /\ Len(png) = Len(before) - Cardinality(OfType(before, t))
            /\ OfType(before, t) = {} => png = before
            /\ chunk_by_chunk_type(png, t) = None

C6_Witness ==
    /\ last.op = "remove"
    /\ Cardinality(OfType(last.before, last.t)) >= 2
    /\ Len(png) >= 2
    /\ png[1].chunk_type # png[2].chunk_type

\* C7: chunk_by_type(t) returns the earliest-appended chunk of type t still
\* in the sequence, the first in stored order, and nothing exactly when no
\* chunk has type t; append_chunk puts the chunk after all the others.
C7_FindFirstAppendLast ==
    /\ last.op = "find" =>
          LET idx == OfType(png, last.t)
          IN  /\ last.found = None <=> idx = {}
              /\ idx # {} =>
                    /\ last.found.tag = "Ok"
                    /\ last.found.val = png[FirstOf(idx)]
                    /\ \A j \in idx : last.found.val.data[1] <= png[j].data[1]
    /\ last.op = "append" =>
          /\ Len(png) = Len(last.before) + 1
          /\ SubSeq(png, 1, Len(last.before)) = last.before
          /\ png[Len(png)] = last.chunk

C7_Witness ==
    /\ last.op = "find" /\ last.found.tag = "Ok"
    /\ Cardinality(OfType(png, last.t)) >= 2
    /\ last.found.val = png[2]
    /\ last.found.val.data[1] > 1

====
